---- MODULE Spec2Model ----
(***************************************************************************)
(* protoc-gen-solana: the field code generator (field.ts), its type table  *)
(* (type-map.ts) and the execution of the Rust fragments it emits against  *)
(* the wire-format runtime.                                                *)
(*                                                                         *)
(* Generated Rust is modelled as structured fragments (records) instead of *)
(* text; the fragments are then run by an interpreter that follows Rust's  *)
(* typing and evaluation rules (casts, slicing, indexing, `?`).            *)
(***************************************************************************)
EXTENDS Integers, Sequences, FiniteSets, TLC

VARIABLES field, phase, member, encFrag, decFrag, nested,
          build, inst, buf, data, pos, msg, status

vars == <<field, phase, member, encFrag, decFrag, nested,
          build, inst, buf, data, pos, msg, status>>

(***************************************************************************)
(* type-map.ts                                                             *)
(***************************************************************************)

\* enum WireType
Varint == 0
Fixed64 == 1
LengthDelimited == 2
Fixed32 == 5

RustTypeInfo(rustType, wireType, encodeFunc, decodeFunc, encodeRef) ==
  [rustType |-> rustType, wireType |-> wireType, encodeFunc |-> encodeFunc,
   decodeFunc |-> decodeFunc, encodeRef |-> encodeRef]

\* A table with one wrong row: fixed32 filed under the 64-bit wire type.
PROTO_TYPE_MAP_Fixed32As64 ==
     1 :> RustTypeInfo("f64", Fixed64, "encode_fixed64", "decode_fixed64", FALSE)
  @@ 2 :> RustTypeInfo("f32", Fixed32, "encode_fixed32", "decode_fixed32", FALSE)
  @@ 3 :> RustTypeInfo("i64", Varint, "encode_varint", "decode_varint", FALSE)
  @@ 4 :> RustTypeInfo("u64", Varint, "encode_varint", "decode_varint", FALSE)
  @@ 5 :> RustTypeInfo("i32", Varint, "encode_varint", "decode_varint", FALSE)
  @@ 6 :> RustTypeInfo("u64", Fixed64, "encode_fixed64", "decode_fixed64", FALSE)
  @@ 7 :> RustTypeInfo("u32", Fixed64, "encode_fixed32", "decode_fixed32", FALSE)
  @@ 8 :> RustTypeInfo("bool", Varint, "encode_bool", "decode_bool", FALSE)
  @@ 9 :> RustTypeInfo("String", LengthDelimited, "encode_string", "decode_string", TRUE)
  @@ 11 :> RustTypeInfo("", LengthDelimited, "", "", TRUE)
  @@ 12 :> RustTypeInfo("Vec<u8>", LengthDelimited, "encode_bytes", "decode_bytes", TRUE)
  @@ 13 :> RustTypeInfo("u32", Varint, "encode_varint", "decode_varint", FALSE)
  @@ 14 :> RustTypeInfo("i32", Varint, "encode_varint", "decode_varint", FALSE)
  @@ 15 :> RustTypeInfo("i32", Fixed32, "encode_sfixed32", "decode_sfixed32", FALSE)
  @@ 16 :> RustTypeInfo("i64", Fixed64, "encode_sfixed64", "decode_sfixed64", FALSE)
  @@ 17 :> RustTypeInfo("i32", Varint, "encode_zigzag32", "decode_zigzag32", FALSE)
  @@ 18 :> RustTypeInfo("i64", Varint, "encode_zigzag64", "decode_zigzag64", FALSE)

\* PROTO_TYPE_MAP: FieldDescriptorProto.Type -> Rust metadata (10 = group has no row)
PROTO_TYPE_MAP ==
     1 :> RustTypeInfo("f64", Fixed64, "encode_fixed64", "decode_fixed64", FALSE)
  @@ 2 :> RustTypeInfo("f32", Fixed32, "encode_fixed32", "decode_fixed32", FALSE)
  @@ 3 :> RustTypeInfo("i64", Varint, "encode_varint", "decode_varint", FALSE)
  @@ 4 :> RustTypeInfo("u64", Varint, "encode_varint", "decode_varint", FALSE)
  @@ 5 :> RustTypeInfo("i32", Varint, "encode_varint", "decode_varint", FALSE)
  @@ 6 :> RustTypeInfo("u64", Fixed64, "encode_fixed64", "decode_fixed64", FALSE)
  @@ 7 :> RustTypeInfo("u32", Fixed32, "encode_fixed32", "decode_fixed32", FALSE)
  @@ 8 :> RustTypeInfo("bool", Varint, "encode_bool", "decode_bool", FALSE)
  @@ 9 :> RustTypeInfo("String", LengthDelimited, "encode_string", "decode_string", TRUE)
  @@ 11 :> RustTypeInfo("", LengthDelimited, "", "", TRUE)
  @@ 12 :> RustTypeInfo("Vec<u8>", LengthDelimited, "encode_bytes", "decode_bytes", TRUE)
  @@ 13 :> RustTypeInfo("u32", Varint, "encode_varint", "decode_varint", FALSE)
  @@ 14 :> RustTypeInfo("i32", Varint, "encode_varint", "decode_varint", FALSE)
  @@ 15 :> RustTypeInfo("i32", Fixed32, "encode_sfixed32", "decode_sfixed32", FALSE)
  @@ 16 :> RustTypeInfo("i64", Fixed64, "encode_sfixed64", "decode_sfixed64", FALSE)
  @@ 17 :> RustTypeInfo("i32", Varint, "encode_zigzag32", "decode_zigzag32", FALSE)
  @@ 18 :> RustTypeInfo("i64", Varint, "encode_zigzag64", "decode_zigzag64", FALSE)

\* `PROTO_TYPE_MAP[t]` is undefined (falsy) for an id without a row
HasTypeInfo(t) == t \in DOMAIN PROTO_TYPE_MAP

\* JavaScript strings are sequences of one-character strings here; the empty
\* sequence stands for both `undefined` and "" (both falsy).
Truthy(s) == Len(s) > 0

\* s.replace(/^\./, "")
StripLeadingDot(s) == IF Len(s) > 0 /\ s[1] = "." THEN Tail(s) ELSE s

\* s.split(".")
RECURSIVE Split(_, _)
Split(s, cur) ==
  IF s = <<>> THEN <<cur>>
  ELSE IF Head(s) = "." THEN <<cur>> \o Split(Tail(s), <<>>)
  ELSE Split(Tail(s), Append(cur, Head(s)))

\* The thrown `Error("Unsupported protobuf field type: ...")`
Unsupported(t) == [threw |-> "UnsupportedType", type |-> t]
\* A property read on undefined: `keyInfo.wireType` with keyInfo undefined
TypeErrorThrown == [threw |-> "TypeError"]
Returned(v) == [threw |-> "", value |-> v]
Threw(r) == r.threw \in {"UnsupportedType", "TypeError"}
\* An entry point that has not been called yet
NotRun == [threw |-> "not run"]
Ran(r) == r.threw # "not run"

\* A resolver that treats enum references like message references.
resolveRustType_EnumShortName(fieldType, typeName) ==
  IF (fieldType = 11 \/ fieldType = 14) /\ Truthy(typeName)
    THEN LET parts == Split(StripLeadingDot(typeName), <<>>)
         IN Returned([named |-> TRUE, name |-> parts[Len(parts)], scalar |-> ""])
    ELSE IF ~HasTypeInfo(fieldType) THEN Unsupported(fieldType)
    ELSE Returned([named |-> FALSE, name |-> <<>>,
                   scalar |-> PROTO_TYPE_MAP[fieldType].rustType])

\* resolveRustType: a struct name (named) or a scalar Rust type
resolveRustType(fieldType, typeName) ==
  IF fieldType = 11 /\ Truthy(typeName)
    THEN LET parts == Split(StripLeadingDot(typeName), <<>>)
         IN Returned([named |-> TRUE, name |-> parts[Len(parts)], scalar |-> ""])
    ELSE IF ~HasTypeInfo(fieldType) THEN Unsupported(fieldType)
    ELSE Returned([named |-> FALSE, name |-> <<>>,
                   scalar |-> PROTO_TYPE_MAP[fieldType].rustType])

\* JavaScript's `<<` and `|` work on 32-bit two's complement integers:
\* ToInt32(fieldNumber * 8), the low three bits then being free for wireType.
TwoPow28 == 2 ^ 28
TwoPow29 == 2 ^ 29

ShiftLeft3(n) ==
  LET low == n % TwoPow29
  IN IF low >= TwoPow28 THEN (low - TwoPow29) * 8 ELSE low * 8

\* fieldTag: (fieldNumber << 3) | wireType, wireType < 8
fieldTag(fieldNumber, wireType) == ShiftLeft3(fieldNumber) + wireType

\* A cast helper that forgets the cast for every type.
needsVarintCast_Never(fieldType) == ""

needsVarintCast(fieldType) ==
  IF ~HasTypeInfo(fieldType) THEN ""
  ELSE LET info == PROTO_TYPE_MAP[fieldType]
       IN IF info.encodeFunc = "encode_varint" /\ info.rustType # "u64"
            THEN " as u64" ELSE ""

\* ` as ${info.rustType}`; the target type is kept apart from the " as " text
varintDecodeCast(fieldType) ==
  IF ~HasTypeInfo(fieldType) THEN ""
  ELSE LET info == PROTO_TYPE_MAP[fieldType]
       IN IF info.decodeFunc = "decode_varint" /\ info.rustType # "u64"
            THEN info.rustType ELSE ""

(***************************************************************************)
(* Number rendering in the emitted text, and how rustc reads it back       *)
(***************************************************************************)

HexChars == <<"0", "1", "2", "3", "4", "5", "6", "7",
              "8", "9", "a", "b", "c", "d", "e", "f">>

\* Digits of |n| in the given radix, most significant first, for n >= 0
RECURSIVE DigitsNonNeg(_, _)
DigitsNonNeg(n, radix) ==
  IF n < radix THEN <<HexChars[n + 1]>>
  ELSE Append(DigitsNonNeg(n \div radix, radix), HexChars[(n % radix) + 1])

\* The same for n <= 0, without ever forming -n (|-2^31| is no 32-bit integer)
RECURSIVE DigitsNonPos(_, _)
DigitsNonPos(n, radix) ==
  LET low == (radix - (n % radix)) % radix
      rest == (n + low) \div radix
  IN IF rest = 0 THEN <<HexChars[low + 1]>>
     ELSE Append(DigitsNonPos(rest, radix), HexChars[low + 1])

\* Number.prototype.toString(radix)
NumberToString(n, radix) ==
  IF n >= 0 THEN DigitsNonNeg(n, radix) ELSE <<"-">> \o DigitsNonPos(n, radix)

\* String.prototype.padStart(2, "0")
PadStart2(s) == IF Len(s) < 2 THEN <<"0">> \o s ELSE s

\* `0x${tag.toString(16).padStart(2, "0")}`
TagHex(tag) == <<"0", "x">> \o PadStart2(NumberToString(tag, 16))

\* `${tag}` in a template string
TagLabel(tag) == NumberToString(tag, 10)

DigitValue(c) == CHOOSE i \in 0..15 : HexChars[i + 1] = c
IsDigit(c, radix) == \E i \in 0..(radix - 1) : HexChars[i + 1] = c

RECURSIVE ParseDigits(_, _, _)
ParseDigits(s, radix, acc) ==
  IF s = <<>> THEN acc
  ELSE ParseDigits(Tail(s), radix, acc * radix + DigitValue(Head(s)))

\* rustc on an integer literal `0x...`: a value, or no literal at all
HexLiteral(lit) ==
  IF Len(lit) > 2 /\ lit[1] = "0" /\ lit[2] = "x"
     /\ \A i \in 3..Len(lit) : IsDigit(lit[i], 16)
    THEN [valid |-> TRUE, value |-> ParseDigits(SubSeq(lit, 3, Len(lit)), 16, 0)]
    ELSE [valid |-> FALSE, value |-> 0]

\* rustc on a match-arm label matched against the unsigned tag decode_key
\* returns: a non-negative decimal literal, or a type error
TagPattern(lit) ==
  IF Len(lit) > 0 /\ \A i \in 1..Len(lit) : IsDigit(lit[i], 10)
    THEN [valid |-> TRUE, value |-> ParseDigits(lit, 10, 0)]
    ELSE [valid |-> FALSE, value |-> 0]

(***************************************************************************)
(* field.ts: the per-field generator                                       *)
(***************************************************************************)

NoMapEntry == [present |-> FALSE, keyType |-> 0, valueType |-> 0, valueTypeName |-> <<>>]
MapEntry(k, v, vn) == [present |-> TRUE, keyType |-> k, valueType |-> v, valueTypeName |-> vn]

isRepeated(f) == f.label = 3
isMessage(f) == f.type = 11

\* The argument expression of an encode call: `&x`, `x.to_bits()`, `x as u64`, `x`
ArgExpr(ref, toBits, cast) == [ref |-> ref, toBits |-> toBits, cast |-> cast]
EncodeCall(func, arg) == [func |-> func, arg |-> arg]
\* The right-hand side of a decode store: `T::from_bits(v)`, `v as T`, `v`
DecodeRead(func, fromBits, cast) == [func |-> func, fromBits |-> fromBits, cast |-> cast]

\* genStructMember: the declared member type(s), or the resolver's throw
genStructMember(f) ==
  LET rustType == resolveRustType(f.type, f.typeName)
  IN IF Threw(rustType) THEN rustType
     ELSE IF f.mapEntry.present
       THEN LET keyType == resolveRustType(f.mapEntry.keyType, <<>>)
                valType == resolveRustType(f.mapEntry.valueType, f.mapEntry.valueTypeName)
            IN IF Threw(keyType) THEN keyType
               ELSE IF Threw(valType) THEN valType
               ELSE Returned([shape |-> "map", keys |-> keyType.value,
                              values |-> valType.value])
     ELSE IF isRepeated(f)
       THEN Returned([shape |-> "vec", elem |-> rustType.value])
     ELSE Returned([shape |-> "plain", type |-> rustType.value])

genScalarEncode(f, typeInfo, tagHex) ==
  LET cast == needsVarintCast(f.type)
  IN IF f.type = 1
       THEN [kind |-> "scalar", tagHex |-> tagHex,
             call |-> EncodeCall("encode_fixed64", ArgExpr(FALSE, TRUE, ""))]
     ELSE IF f.type = 2
       THEN [kind |-> "scalar", tagHex |-> tagHex,
             call |-> EncodeCall("encode_fixed32", ArgExpr(FALSE, TRUE, ""))]
     ELSE IF typeInfo.encodeRef
       THEN [kind |-> "scalar", tagHex |-> tagHex,
             call |-> EncodeCall(typeInfo.encodeFunc, ArgExpr(TRUE, FALSE, ""))]
     ELSE [kind |-> "scalar", tagHex |-> tagHex,
           call |-> EncodeCall(typeInfo.encodeFunc, ArgExpr(FALSE, FALSE, cast))]

genMessageEncode(f, tagHex) == [kind |-> "message", tagHex |-> tagHex]

\* A repeated encoder that packs: one tag, then every element's payload.
genRepeatedEncode_Packed(f, typeInfo, tagHex) ==
  [kind |-> "packed", tagHex |-> tagHex, elemMessage |-> FALSE,
   call |-> EncodeCall(typeInfo.encodeFunc, ArgExpr(FALSE, FALSE, needsVarintCast(f.type)))]

genRepeatedEncode(f, typeInfo, tagHex) ==
  IF isMessage(f)
    THEN [kind |-> "repeated", tagHex |-> tagHex, elemMessage |-> TRUE,
          call |-> EncodeCall("", ArgExpr(FALSE, FALSE, ""))]
  ELSE IF f.type = 1
    THEN [kind |-> "repeated", tagHex |-> tagHex, elemMessage |-> FALSE,
          call |-> EncodeCall("encode_fixed64", ArgExpr(FALSE, TRUE, ""))]
  ELSE IF f.type = 2
    THEN [kind |-> "repeated", tagHex |-> tagHex, elemMessage |-> FALSE,
          call |-> EncodeCall("encode_fixed32", ArgExpr(FALSE, TRUE, ""))]
  ELSE IF typeInfo.encodeRef
    \* `elem` is already a reference
    THEN [kind |-> "repeated", tagHex |-> tagHex, elemMessage |-> FALSE,
          call |-> EncodeCall(typeInfo.encodeFunc, ArgExpr(TRUE, FALSE, ""))]
  ELSE [kind |-> "repeated", tagHex |-> tagHex, elemMessage |-> FALSE,
        call |-> EncodeCall(typeInfo.encodeFunc,
                            ArgExpr(FALSE, FALSE, needsVarintCast(f.type)))]

genMapEncode(f, tagHex) ==
  LET me == f.mapEntry
  IN IF ~HasTypeInfo(me.keyType) THEN TypeErrorThrown      \* keyInfo.wireType
     ELSE IF me.valueType # 11 /\ ~HasTypeInfo(me.valueType)
       THEN TypeErrorThrown                                \* valInfo.wireType
     ELSE
       LET keyInfo == PROTO_TYPE_MAP[me.keyType]
           keyTag == TagHex(fieldTag(1, keyInfo.wireType))
           keyCast == needsVarintCast(me.keyType)
           keyCall == IF keyInfo.encodeRef
                        THEN EncodeCall(keyInfo.encodeFunc, ArgExpr(TRUE, FALSE, ""))
                        ELSE EncodeCall(keyInfo.encodeFunc, ArgExpr(FALSE, FALSE, keyCast))
       IN IF me.valueType = 11
            THEN Returned([kind |-> "map", tagHex |-> tagHex,
                           keyTag |-> keyTag, keyCall |-> keyCall,
                           valTag |-> TagHex(fieldTag(2, LengthDelimited)),
                           valMessage |-> TRUE,
                           valCall |-> EncodeCall("", ArgExpr(FALSE, FALSE, ""))])
            ELSE LET valInfo == PROTO_TYPE_MAP[me.valueType]
                     valCast == needsVarintCast(me.valueType)
                 IN Returned([kind |-> "map", tagHex |-> tagHex,
                       keyTag |-> keyTag, keyCall |-> keyCall,
                       valTag |-> TagHex(fieldTag(2, valInfo.wireType)),
                       valMessage |-> FALSE,
                       valCall |-> IF valInfo.encodeRef
                         THEN EncodeCall(valInfo.encodeFunc, ArgExpr(TRUE, FALSE, ""))
                         ELSE EncodeCall(valInfo.encodeFunc, ArgExpr(FALSE, FALSE, valCast))])

\* The `// TODO: unsupported field type` comment: a fragment without statements
TodoComment == [kind |-> "todo"]

\* The wire type genFieldEncode and genFieldDecode build the field's tag with
TagWireType(f, typeInfo) ==
  IF f.mapEntry.present THEN LengthDelimited ELSE typeInfo.wireType

genFieldEncode(f) ==
  IF ~HasTypeInfo(f.type) THEN Returned(TodoComment)
  ELSE LET typeInfo == PROTO_TYPE_MAP[f.type]
           tagHex == TagHex(fieldTag(f.number, TagWireType(f, typeInfo)))
       IN IF f.mapEntry.present THEN genMapEncode(f, tagHex)
          ELSE IF isRepeated(f) THEN Returned(genRepeatedEncode(f, typeInfo, tagHex))
          ELSE IF isMessage(f) THEN Returned(genMessageEncode(f, tagHex))
          ELSE Returned(genScalarEncode(f, typeInfo, tagHex))

genScalarDecode(f, typeInfo, tag) ==
  LET cast == varintDecodeCast(f.type)
  IN IF f.type = 1
       THEN [kind |-> "scalar", tag |-> TagLabel(tag),
             read |-> DecodeRead("decode_fixed64", "f64", "")]
     ELSE IF f.type = 2
       THEN [kind |-> "scalar", tag |-> TagLabel(tag),
             read |-> DecodeRead("decode_fixed32", "f32", "")]
     ELSE [kind |-> "scalar", tag |-> TagLabel(tag),
           read |-> DecodeRead(typeInfo.decodeFunc, "", cast)]

genMessageDecode(f, tag) ==
  [kind |-> "message", tag |-> TagLabel(tag),
   structType |-> resolveRustType(f.type, f.typeName).value]

genRepeatedDecode(f, typeInfo, tag) ==
  IF isMessage(f)
    THEN [kind |-> "repeated", tag |-> TagLabel(tag), elemMessage |-> TRUE,
          structType |-> resolveRustType(f.type, f.typeName).value,
          read |-> DecodeRead("", "", "")]
  ELSE IF f.type = 1
    THEN [kind |-> "repeated", tag |-> TagLabel(tag), elemMessage |-> FALSE,
          read |-> DecodeRead("decode_fixed64", "f64", "")]
  ELSE IF f.type = 2
    THEN [kind |-> "repeated", tag |-> TagLabel(tag), elemMessage |-> FALSE,
          read |-> DecodeRead("decode_fixed32", "f32", "")]
  ELSE [kind |-> "repeated", tag |-> TagLabel(tag), elemMessage |-> FALSE,
        read |-> DecodeRead(typeInfo.decodeFunc, "", varintDecodeCast(f.type))]

genMapDecode(f, tag) ==
  LET me == f.mapEntry
      keySol == resolveRustType(me.keyType, <<>>)
      valSol == resolveRustType(me.valueType, me.valueTypeName)
  IN IF Threw(keySol) THEN keySol
     ELSE IF Threw(valSol) THEN valSol
     ELSE
       LET keyInfo == PROTO_TYPE_MAP[me.keyType]
           keyRead == DecodeRead(keyInfo.decodeFunc, "", varintDecodeCast(me.keyType))
       IN IF me.valueType = 11
            THEN Returned([kind |-> "map", tag |-> TagLabel(tag),
                   keySol |-> keySol.value, valSol |-> valSol.value,
                   keyTag |-> TagLabel(fieldTag(1, keyInfo.wireType)),
                   keyRead |-> keyRead,
                   valTag |-> TagLabel(fieldTag(2, LengthDelimited)),
                   valMessage |-> TRUE, valRead |-> DecodeRead("", "", "")])
            ELSE LET valInfo == PROTO_TYPE_MAP[me.valueType]
                 IN Returned([kind |-> "map", tag |-> TagLabel(tag),
                       keySol |-> keySol.value, valSol |-> valSol.value,
                       keyTag |-> TagLabel(fieldTag(1, keyInfo.wireType)),
                       keyRead |-> keyRead,
                       valTag |-> TagLabel(fieldTag(2, valInfo.wireType)),
                       valMessage |-> FALSE,
                       valRead |-> DecodeRead(valInfo.decodeFunc, "",
                                              varintDecodeCast(me.valueType))])

genFieldDecode(f) ==
  IF ~HasTypeInfo(f.type) THEN Returned(TodoComment)
  ELSE LET typeInfo == PROTO_TYPE_MAP[f.type]
           tag == fieldTag(f.number, TagWireType(f, typeInfo))
       IN IF f.mapEntry.present THEN genMapDecode(f, tag)
          ELSE IF isRepeated(f) THEN Returned(genRepeatedDecode(f, typeInfo, tag))
          ELSE IF isMessage(f) THEN Returned(genMessageDecode(f, tag))
          ELSE Returned(genScalarDecode(f, typeInfo, tag))

(***************************************************************************)
(* Rust values: a type and a bit pattern (least significant bit first), a  *)
(* byte string, or the stored members of a struct                          *)
(***************************************************************************)

ScalarType(s) == [named |-> FALSE, name |-> <<>>, scalar |-> s]
Val(ty, v) == [ty |-> ty, v |-> v]

WidthOf(s) ==
  IF s \in {"i32", "u32", "f32"} THEN 32
  ELSE IF s \in {"i64", "u64", "f64"} THEN 64
  ELSE 1      \* bool

IsSigned(s) == s \in {"i32", "i64"}
IsInteger(s) == s \in {"i32", "u32", "i64", "u64", "bool"}

ZeroBits(w) == [i \in 1..w |-> 0]
AllZero(b) == \A i \in 1..Len(b) : b[i] = 0

Pow2(k) == 2 ^ k

\* The w-bit pattern of a small natural number
NatBits(n, w) == [i \in 1..w |-> IF i <= 31 THEN (n \div Pow2(i - 1)) % 2 ELSE 0]

\* Whether the pattern is a number the model can count with (< 2^20)
IsSmall(b) == \A i \in 21..Len(b) : b[i] = 0

RECURSIVE BitsNat(_, _)
BitsNat(b, i) == IF i > Len(b) \/ i > 20 THEN 0 ELSE b[i] + 2 * BitsNat(b, i + 1)

\* Rust's `as` between integer types: truncate, or extend by the source's sign
CastBits(b, fromSigned, w) ==
  [i \in 1..w |-> IF i <= Len(b) THEN b[i]
                  ELSE IF fromSigned THEN b[Len(b)] ELSE 0]

CastTo(x, target) ==
  Val(ScalarType(target), CastBits(x.v, IsSigned(x.ty.scalar), WidthOf(target)))

ShiftRight(b, k) == [i \in 1..Len(b) |-> IF i + k <= Len(b) THEN b[i + k] ELSE 0]

Xor(a, c) == (a + c) % 2

\* The byte made of bits from..from+7 of b
ByteAt(b, from) ==
  LET bit(i) == IF from + i <= Len(b) THEN b[from + i] ELSE 0
  IN bit(0) + 2 * bit(1) + 4 * bit(2) + 8 * bit(3)
     + 16 * bit(4) + 32 * bit(5) + 64 * bit(6) + 128 * bit(7)

\* The w-bit pattern of w/8 little-endian bytes
BytesBits(bytes, w) ==
  [i \in 1..w |-> (bytes[((i - 1) \div 8) + 1] \div Pow2((i - 1) % 8)) % 2]

(***************************************************************************)
(* protobuf_runtime.rs: the wire-format primitives                         *)
(***************************************************************************)

Ok(v, p) == [ok |-> TRUE, v |-> v, pos |-> p]
DecodeError == [ok |-> FALSE, v |-> <<>>, pos |-> 0]

\* encode_varint: LEB128 of the 64-bit carrier
RECURSIVE EncodeVarint(_)
EncodeVarint(b) ==
  LET low == ByteAt(b, 1) % 128
      rest == ShiftRight(b, 7)
  IN IF AllZero(rest) THEN <<low>> ELSE <<low + 128>> \o EncodeVarint(rest)

\* decode_varint: fails on truncated input and on a tenth continuation byte
RECURSIVE DecodeVarintFrom(_, _, _, _)
DecodeVarintFrom(d, p, shift, acc) ==
  IF p >= Len(d) THEN DecodeError
  ELSE LET byte == d[p + 1]
           next == [i \in 1..64 |->
                      IF i > shift /\ i <= shift + 7
                        THEN (byte \div Pow2(i - shift - 1)) % 2
                        ELSE acc[i]]
       IN IF byte < 128 THEN Ok(Val(ScalarType("u64"), next), p + 1)
          ELSE IF shift >= 63 THEN DecodeError
          ELSE DecodeVarintFrom(d, p + 1, shift + 7, next)

DecodeVarint(d, p) == DecodeVarintFrom(d, p, 0, ZeroBits(64))

\* n >= 0 -> 2n, n < 0 -> -2n-1: (n << 1) ^ (n >> (w-1))
ZigzagBits(b) ==
  [i \in 1..Len(b) |-> Xor(IF i = 1 THEN 0 ELSE b[i - 1], b[Len(b)])]

\* (u >> 1) ^ -(u & 1)
UnzigzagBits(u) ==
  [i \in 1..Len(u) |-> Xor(IF i < Len(u) THEN u[i + 1] ELSE 0, u[1])]

\* Raw little-endian bytes of the given width
EncodeFixed(b) == [k \in 1..(Len(b) \div 8) |-> ByteAt(b, 8 * (k - 1) + 1)]

DecodeFixed(d, p, w, ty) ==
  IF p + (w \div 8) > Len(d) THEN DecodeError
  ELSE Ok(Val(ScalarType(ty), BytesBits(SubSeq(d, p + 1, p + (w \div 8)), w)),
          p + (w \div 8))

\* Varint length prefix, then that many raw bytes
EncodeLengthDelimited(bytes) == EncodeVarint(NatBits(Len(bytes), 64)) \o bytes

\* The bytes that follow a decoded length prefix; fails on underrun
BytesAfter(len, d, ty) ==
  IF ~len.ok THEN DecodeError
  ELSE IF ~IsSmall(len.v.v) \/ len.pos + BitsNat(len.v.v, 1) > Len(d)
    THEN DecodeError
  ELSE Ok(Val(ScalarType(ty),
              SubSeq(d, len.pos + 1, len.pos + BitsNat(len.v.v, 1))),
          len.pos + BitsNat(len.v.v, 1))

DecodeLengthDelimited(d, p, ty) == BytesAfter(DecodeVarint(d, p), d, ty)

\* The Rust type each encode primitive takes
ParamType(func) ==
  CASE func = "encode_varint" -> "u64"
    [] func = "encode_zigzag32" -> "i32"
    [] func = "encode_zigzag64" -> "i64"
    [] func = "encode_fixed32" -> "u32"
    [] func = "encode_fixed64" -> "u64"
    [] func = "encode_sfixed32" -> "i32"
    [] func = "encode_sfixed64" -> "i64"
    [] func = "encode_bool" -> "bool"
    [] func = "encode_string" -> "String"
    [] func = "encode_bytes" -> "Vec<u8>"
    [] OTHER -> "!"

\* Whether the primitive takes its argument by reference (&str, &[u8])
ParamIsRef(func) == func \in {"encode_string", "encode_bytes"}

\* The Rust type each decode primitive returns
ReturnType(func) ==
  CASE func = "decode_varint" -> "u64"
    [] func = "decode_zigzag32" -> "i32"
    [] func = "decode_zigzag64" -> "i64"
    [] func = "decode_fixed32" -> "u32"
    [] func = "decode_fixed64" -> "u64"
    [] func = "decode_sfixed32" -> "i32"
    [] func = "decode_sfixed64" -> "i64"
    [] func = "decode_bool" -> "bool"
    [] func = "decode_string" -> "String"
    [] func = "decode_bytes" -> "Vec<u8>"
    [] OTHER -> "!"

\* encode_*(buf, x): the bytes appended for an argument of the parameter's type
EncodePrimitive(func, x) ==
  CASE func = "encode_varint" -> EncodeVarint(x.v)
    [] func = "encode_zigzag32" -> EncodeVarint(CastBits(ZigzagBits(x.v), FALSE, 64))
    [] func = "encode_zigzag64" -> EncodeVarint(ZigzagBits(x.v))
    [] func \in {"encode_fixed32", "encode_fixed64",
                 "encode_sfixed32", "encode_sfixed64"} -> EncodeFixed(x.v)
    [] func = "encode_bool" -> <<x.v[1]>>
    [] func \in {"encode_string", "encode_bytes"} -> EncodeLengthDelimited(x.v)

\* decode_*(data, pos): the value read and the position after it, or a failure
\* What a varint-based primitive makes of the varint r it read
FromVarint(func, r) ==
  IF ~r.ok THEN r
  ELSE CASE func = "decode_zigzag32" ->
              Ok(Val(ScalarType("i32"), UnzigzagBits(CastBits(r.v.v, FALSE, 32))),
                 r.pos)
         [] func = "decode_zigzag64" ->
              Ok(Val(ScalarType("i64"), UnzigzagBits(r.v.v)), r.pos)
         [] func = "decode_bool" ->
              Ok(Val(ScalarType("bool"), <<IF AllZero(r.v.v) THEN 0 ELSE 1>>), r.pos)
         [] OTHER -> r

DecodePrimitive(func, d, p) ==
  CASE func \in {"decode_varint", "decode_zigzag32", "decode_zigzag64",
                 "decode_bool"} -> FromVarint(func, DecodeVarint(d, p))
    [] func = "decode_fixed32" -> DecodeFixed(d, p, 32, "u32")
    [] func = "decode_fixed64" -> DecodeFixed(d, p, 64, "u64")
    [] func = "decode_sfixed32" -> DecodeFixed(d, p, 32, "i32")
    [] func = "decode_sfixed64" -> DecodeFixed(d, p, 64, "i64")
    [] func = "decode_string" -> DecodeLengthDelimited(d, p, "String")
    [] func = "decode_bytes" -> DecodeLengthDelimited(d, p, "Vec<u8>")

\* encode_key: the tag, varint-framed
EncodeKey(tag) == EncodeVarint(NatBits(tag, 64))

\* decode_key: the varint-framed tag
DecodeKey(d, p) == DecodeVarint(d, p)

\* `tag == label` for a decoded tag and a match-arm label
TagIs(tag, label) == IsSmall(tag.v) /\ BitsNat(tag.v, 1) = label

\* `tag & 0x07`
WireTypeBits(tag) == tag.v[1] + 2 * tag.v[2] + 4 * tag.v[3]

\* skip_field: consumes one value of the wire type, fails on underrun
Skipped(r) == IF r.ok THEN Ok(<<>>, r.pos) ELSE DecodeError

SkipField(d, p, wireType) ==
  CASE wireType = 0 -> Skipped(DecodeVarint(d, p))
    [] wireType = 1 -> IF p + 8 > Len(d) THEN DecodeError ELSE Ok(<<>>, p + 8)
    [] wireType = 5 -> IF p + 4 > Len(d) THEN DecodeError ELSE Ok(<<>>, p + 4)
    [] wireType = 2 -> Skipped(DecodeLengthDelimited(d, p, "Vec<u8>"))
    [] OTHER -> DecodeError

(***************************************************************************)
(* The generated message codec: the struct, encode() and decode() that the *)
(* message assembler composes from the per-field fragments.  The schema is *)
(* a message with one field, which may refer to the nested message        *)
(* `message I { int32 a = 1; }`.                                           *)
(***************************************************************************)

InnerName == <<"I">>
InnerTypeName == <<".", "p", ".", "I">>
InnerFields == <<[number |-> 1, type |-> 5, typeName |-> <<>>, label |-> 1,
                  mapEntry |-> NoMapEntry]>>

\* The generated module of the nested message: its members and fragments
NestedCodec ==
  [members |-> [i \in 1..Len(InnerFields) |-> genStructMember(InnerFields[i]).value],
   enc |-> [i \in 1..Len(InnerFields) |-> genFieldEncode(InnerFields[i]).value],
   dec |-> [i \in 1..Len(InnerFields) |-> genFieldDecode(InnerFields[i]).value]]

\* Default::default() of a scalar type
DefaultScalar(ty) ==
  IF ty.scalar \in {"String", "Vec<u8>"} THEN Val(ty, <<>>)
  ELSE Val(ty, ZeroBits(WidthOf(ty.scalar)))

\* Default::default() of a member type: a scalar's, or the nested struct's
DefaultValue(ty) ==
  IF ty.named
    THEN Val(ty, [i \in 1..Len(nested.members) |->
                    DefaultScalar(nested.members[i].type)])
    ELSE DefaultScalar(ty)

DefaultStored(m) ==
  IF m.shape = "map" THEN [keys |-> <<>>, values |-> <<>>]
  ELSE IF m.shape = "vec" THEN [vec |-> <<>>]
  ELSE DefaultValue(m.type)

\* rustc on one encode call whose operand has type ty
EncodeCallCompiles(call, ty) ==
  LET argType ==
        IF call.arg.toBits
          THEN (IF ty.scalar = "f64" THEN "u64"
                ELSE IF ty.scalar = "f32" THEN "u32" ELSE "!")
        ELSE IF call.arg.cast = " as u64"
          THEN (IF IsInteger(ty.scalar) THEN "u64" ELSE "!")
        ELSE ty.scalar
  IN /\ ~ty.named
     /\ argType = ParamType(call.func)
     /\ call.arg.ref = ParamIsRef(call.func)

\* rustc on one decode read stored into a place of type ty
DecodeReadCompiles(read, ty) ==
  LET ret == ReturnType(read.func)
      stored ==
        IF read.fromBits # ""
          THEN (IF (read.fromBits = "f64" /\ ret = "u64")
                   \/ (read.fromBits = "f32" /\ ret = "u32")
                  THEN read.fromBits ELSE "!")
        ELSE IF read.cast # ""
          THEN (IF IsInteger(ret) /\ read.cast # "bool" THEN read.cast ELSE "!")
        ELSE ret
  IN ~ty.named /\ stored = ty.scalar

\* The struct a member type names is one the generated module declares
StructCompiles(ty) == ty.named /\ ty.name = InnerName

\* rustc on the encode fragment of a field with struct member m
EncodeCompiles(frag, m) ==
  CASE frag.kind = "todo" -> TRUE
    [] frag.kind = "scalar" ->
         HexLiteral(frag.tagHex).valid /\ EncodeCallCompiles(frag.call, m.type)
    [] frag.kind = "message" ->
         HexLiteral(frag.tagHex).valid /\ StructCompiles(m.type)
    [] frag.kind \in {"repeated", "packed"} ->
         /\ HexLiteral(frag.tagHex).valid
         /\ IF frag.elemMessage THEN StructCompiles(m.elem)
            ELSE EncodeCallCompiles(frag.call, m.elem)
    [] frag.kind = "map" ->
         /\ HexLiteral(frag.tagHex).valid
         /\ HexLiteral(frag.keyTag).valid /\ HexLiteral(frag.valTag).valid
         /\ EncodeCallCompiles(frag.keyCall, m.keys)
         /\ IF frag.valMessage THEN StructCompiles(m.values)
            ELSE EncodeCallCompiles(frag.valCall, m.values)

\* rustc on the decode arm of a field with struct member m
DecodeCompiles(frag, m) ==
  CASE frag.kind = "todo" -> TRUE
    [] frag.kind = "scalar" ->
         TagPattern(frag.tag).valid /\ DecodeReadCompiles(frag.read, m.type)
    [] frag.kind = "message" ->
         TagPattern(frag.tag).valid /\ StructCompiles(m.type)
                                    /\ frag.structType = m.type
    [] frag.kind = "repeated" ->
         /\ TagPattern(frag.tag).valid
         /\ IF frag.elemMessage
              THEN StructCompiles(m.elem) /\ frag.structType = m.elem
              ELSE DecodeReadCompiles(frag.read, m.elem)
    [] frag.kind = "map" ->
         /\ TagPattern(frag.tag).valid
         /\ TagPattern(frag.keyTag).valid /\ TagPattern(frag.valTag).valid
         /\ frag.keySol = m.keys /\ frag.valSol = m.values
         /\ DecodeReadCompiles(frag.keyRead, m.keys)
         /\ IF frag.valMessage THEN StructCompiles(m.values)
            ELSE DecodeReadCompiles(frag.valRead, m.values)

\* The operand an encode call passes to the primitive
ArgValue(arg, x) ==
  IF arg.toBits
    THEN Val(ScalarType(IF x.ty.scalar = "f64" THEN "u64" ELSE "u32"), x.v)
  ELSE IF arg.cast = " as u64" THEN CastTo(x, "u64")
  ELSE x

ExecEncodeCall(call, x) == EncodePrimitive(call.func, ArgValue(call.arg, x))

Encoded(bytes) == [panic |-> FALSE, bytes |-> bytes]
EncodePanic == [panic |-> TRUE, bytes |-> <<>>]

TagOf(tagHex) == HexLiteral(tagHex).value

\* encode() of the nested struct: its (scalar) fields in declaration order
RECURSIVE EncodeNestedFrom(_, _)
EncodeNestedFrom(m, i) ==
  IF i > Len(nested.enc) THEN <<>>
  ELSE EncodeKey(TagOf(nested.enc[i].tagHex))
       \o ExecEncodeCall(nested.enc[i].call, m[i])
       \o EncodeNestedFrom(m, i + 1)

\* `let e = x.encode(); encode_varint(buf, e.len() as u64); buf.extend(e)`
EncodeNested(x) == EncodeLengthDelimited(EncodeNestedFrom(x.v, 1))

\* The payload of one repeated element or map value
ElementPayload(isMessage_, call, x) ==
  IF isMessage_ THEN EncodeNested(x) ELSE ExecEncodeCall(call, x)

\* `for elem in &self.x { encode_key(tag); <payload> }`
RECURSIVE EncodeRepeatedFrom(_, _, _)
EncodeRepeatedFrom(frag, elems, i) ==
  IF i > Len(elems) THEN <<>>
  ELSE EncodeKey(TagOf(frag.tagHex))
       \o ElementPayload(frag.elemMessage, frag.call, elems[i])
       \o EncodeRepeatedFrom(frag, elems, i + 1)

\* What a packed fragment emits behind its one tag: the payloads
RECURSIVE PackedPayload(_, _, _)
PackedPayload(frag, elems, i) ==
  IF i > Len(elems) THEN <<>>
  ELSE ExecEncodeCall(frag.call, elems[i]) \o PackedPayload(frag, elems, i + 1)

\* `for i in 0..self.x_keys.len() { ... self.x_values[i] ... }`: indexing past
\* the end of x_values panics
RECURSIVE EncodeMapFrom(_, _, _, _)
EncodeMapFrom(frag, keys, values, i) ==
  IF i > Len(keys) THEN Encoded(<<>>)
  ELSE IF i > Len(values) THEN EncodePanic
  ELSE LET rest == EncodeMapFrom(frag, keys, values, i + 1)
           entry == EncodeKey(TagOf(frag.keyTag))
                    \o ExecEncodeCall(frag.keyCall, keys[i])
                    \o EncodeKey(TagOf(frag.valTag))
                    \o ElementPayload(frag.valMessage, frag.valCall, values[i])
       IN IF rest.panic THEN EncodePanic
          ELSE Encoded(EncodeKey(TagOf(frag.tagHex))
                       \o EncodeLengthDelimited(entry) \o rest.bytes)

\* encode() of the one-field message: the bytes its fragment appends to buf
EncodeField(frag, stored) ==
  CASE frag.kind = "todo" -> Encoded(<<>>)
    [] frag.kind = "scalar" ->
         Encoded(EncodeKey(TagOf(frag.tagHex)) \o ExecEncodeCall(frag.call, stored))
    [] frag.kind = "message" ->
         Encoded(EncodeKey(TagOf(frag.tagHex)) \o EncodeNested(stored))
    [] frag.kind = "repeated" -> Encoded(EncodeRepeatedFrom(frag, stored.vec, 1))
    [] frag.kind = "packed" ->
         Encoded(EncodeKey(TagOf(frag.tagHex))
                 \o EncodeLengthDelimited(PackedPayload(frag, stored.vec, 1)))
    [] frag.kind = "map" -> EncodeMapFrom(frag, stored.keys, stored.values, 1)

\* `pos + len as usize` on a 64-bit target.  A sum past 2^64 panics in a build
\* with overflow checks and wraps in one without.  Far stands for every sum
\* beyond the model's range, which is beyond every buffer.
Far == 2 ^ 20

AddUsize(p, len, bld) ==
  IF IsSmall(len) THEN [panic |-> FALSE, val |-> p + BitsNat(len, 1)]
  ELSE IF (\A i \in 21..64 : len[i] = 1) /\ p >= Far - BitsNat(len, 1)
    THEN IF bld = "debug" THEN [panic |-> TRUE, val |-> 0]
         ELSE [panic |-> FALSE, val |-> p - (Far - BitsNat(len, 1))]
  ELSE [panic |-> FALSE, val |-> Far]

\* `&data[from..to]` panics unless from <= to <= data.len()
SliceInRange(d, from, to) == from <= to /\ to <= Len(d)

\* The value a decode arm stores: T::from_bits(v), v as T, or v
StoredValue(read, v) ==
  IF read.fromBits # "" THEN Val(ScalarType(read.fromBits), v.v)
  ELSE IF read.cast # "" THEN CastTo(v, read.cast)
  ELSE v

Step(st, p, m) == [status |-> st, pos |-> p, msg |-> m]

\* The arm of the nested struct's decode() that a tag selects (0: none)
NestedArm(tag) ==
  IF \E i \in 1..Len(nested.dec) : TagIs(tag, TagPattern(nested.dec[i].tag).value)
    THEN CHOOSE i \in 1..Len(nested.dec) :
           TagIs(tag, TagPattern(nested.dec[i].tag).value)
    ELSE 0

\* decode() of the nested struct on its slice: a tag, then the matching
\* member's read, or skip_field; `?` returns the failure
RECURSIVE DecodeNestedLoop(_, _, _)

NestedStored(d, p, m, i, r) ==
  IF ~r.ok THEN Step("err", p, m)
  ELSE DecodeNestedLoop(d, r.pos,
                        [m EXCEPT ![i] = StoredValue(nested.dec[i].read, r.v)])

NestedSkipped(d, p, m, r) ==
  IF ~r.ok THEN Step("err", p, m) ELSE DecodeNestedLoop(d, r.pos, m)

NestedMatched(d, p, m, tag, i) ==
  IF i # 0
    THEN NestedStored(d, p, m, i,
                      DecodePrimitive(nested.dec[i].read.func, d, tag.pos))
    ELSE NestedSkipped(d, p, m, SkipField(d, tag.pos, WireTypeBits(tag.v)))

NestedKeyed(d, p, m, tag) ==
  IF ~tag.ok THEN Step("err", p, m)
  ELSE NestedMatched(d, p, m, tag, NestedArm(tag.v))

DecodeNestedLoop(d, p, m) ==
  IF ~(p < Len(d)) THEN Step("ok", p, m) ELSE NestedKeyed(d, p, m, DecodeKey(d, p))

\* An element read: its status, the position after it, and the value
Element(st, p, v) == [status |-> st, pos |-> p, v |-> v]

\* `T::decode(&data[new_pos..end])?`, then `pos = end`
NestedDecoded(ty, p, end, inner) ==
  IF inner.status # "ok" THEN Element(inner.status, p, <<>>)
  ELSE Element("ok", end, Val(ty, inner.msg))

\* `let end = new_pos + len as usize;` and the slice `&data[new_pos..end]`
NestedSliced(ty, d, p, len, end) ==
  IF end.panic \/ ~SliceInRange(d, len.pos, end.val) THEN Element("panic", p, <<>>)
  ELSE NestedDecoded(ty, p, end.val,
                     DecodeNestedLoop(SubSeq(d, len.pos + 1, end.val), 0,
                                      DefaultValue(ty).v))

\* `let (len, new_pos) = decode_varint(data, pos)?;`
NestedMeasured(ty, d, p, len, bld) ==
  IF ~len.ok THEN Element("err", p, <<>>)
  ELSE NestedSliced(ty, d, p, len, AddUsize(len.pos, len.v.v, bld))

\* The length-prefixed read of a nested message
DecodeNested(ty, d, p, bld) == NestedMeasured(ty, d, p, DecodeVarint(d, p), bld)

\* `let (v, new_pos) = decode_x(data, pos)?;` and the stored form of v
ScalarRead(read, p, r) ==
  IF ~r.ok THEN Element("err", p, <<>>)
  ELSE Element("ok", r.pos, StoredValue(read, r.v))

\* One value read by a scalar read or a nested decode
ReadElement(isMessage_, ty, read, d, p, bld) ==
  IF isMessage_ THEN DecodeNested(ty, d, p, bld)
  ELSE ScalarRead(read, p, DecodePrimitive(read.func, d, p))

\* The field of a map entry that a tag selects
EntryField(frag, tag) ==
  IF TagIs(tag, TagPattern(frag.keyTag).value) THEN "key"
  ELSE IF TagIs(tag, TagPattern(frag.valTag).value) THEN "value"
  ELSE "unknown"

\* An inner loop whose fallback arm rejects the unknown sub-field.
EntrySkipped_Rejected(sk) == Element("err", sk.pos, <<>>)

\* `pos = skip_field(data, pos, entry_tag & 0x07)?;`
EntrySkipped(sk) == Element(IF sk.ok THEN "ok" ELSE "err", sk.pos, <<>>)

\* One field of a map entry read after its tag: the key, the value, or a
\* skipped unknown field
ReadEntryField(frag, which, wireType, d, p, bld) ==
  CASE which = "key" -> ReadElement(FALSE, frag.keySol, frag.keyRead, d, p, bld)
    [] which = "value" ->
         ReadElement(frag.valMessage, frag.valSol, frag.valRead, d, p, bld)
    [] OTHER -> EntrySkipped(SkipField(d, p, wireType))

\* The state of a map entry's inner loop
Entry(st, p, key, val) == [status |-> st, pos |-> p, key |-> key, val |-> val]

\* The inner tag-dispatch loop of a map entry: `while pos < entry_end { .. }`
RECURSIVE MapEntryLoop(_, _, _, _, _, _, _)

EntryAssigned(frag, d, p, entryEnd, key, val, bld, which, r) ==
  IF r.status # "ok" THEN Entry(r.status, p, key, val)
  ELSE MapEntryLoop(frag, d, r.pos, entryEnd,
                    IF which = "key" THEN r.v ELSE key,
                    IF which = "value" THEN r.v ELSE val, bld)

EntrySelected(frag, d, p, entryEnd, key, val, bld, tag, which) ==
  EntryAssigned(frag, d, p, entryEnd, key, val, bld, which,
                ReadEntryField(frag, which, WireTypeBits(tag.v), d, tag.pos, bld))

EntryKeyed(frag, d, p, entryEnd, key, val, bld, tag) ==
  IF ~tag.ok THEN Entry("err", p, key, val)
  ELSE EntrySelected(frag, d, p, entryEnd, key, val, bld, tag,
                     EntryField(frag, tag.v))

MapEntryLoop(frag, d, p, entryEnd, key, val, bld) ==
  IF ~(p < entryEnd) THEN Entry("ok", p, key, val)
  ELSE EntryKeyed(frag, d, p, entryEnd, key, val, bld, DecodeKey(d, p))

\* A map arm that pushes the key as soon as the entry opens.
EntryPushed_KeyFirst(stored, r) ==
  IF r.status # "ok"
    THEN Step(r.status, r.pos, [stored EXCEPT !.keys = Append(@, r.key)])
  ELSE Step("decoding", r.pos,
            [keys |-> Append(stored.keys, r.key),
             values |-> Append(stored.values, r.val)])

\* `msg.keys.push(key); msg.values.push(val);` after the inner loop
EntryPushed(stored, r) ==
  IF r.status # "ok" THEN Step(r.status, r.pos, stored)
  ELSE Step("decoding", r.pos,
            [keys |-> Append(stored.keys, r.key),
             values |-> Append(stored.values, r.val)])

\* `let entry_end = pos + entry_len as usize;`, the defaults of key and val,
\* and the inner loop
EntryEntered(frag, d, p, stored, bld, len, end) ==
  IF end.panic THEN Step("panic", p, stored)
  ELSE EntryPushed(stored,
                   MapEntryLoop(frag, d, len.pos, end.val,
                                DefaultValue(frag.keySol),
                                DefaultValue(frag.valSol), bld))

\* `let (entry_len, new_pos) = decode_varint(data, pos)?;`
EntryMeasured(frag, d, p, stored, bld, len) ==
  IF ~len.ok THEN Step("err", p, stored)
  ELSE EntryEntered(frag, d, p, stored, bld, len,
                    AddUsize(len.pos, len.v.v, bld))

\* The map arm: read the entry length, run the inner loop over
\* [pos, entry_end), then push the key and the value
MapArm(frag, d, p, stored, bld) ==
  EntryMeasured(frag, d, p, stored, bld, DecodeVarint(d, p))

\* `msg.x.push(v)`
ElementPushed(p, stored, r) ==
  IF r.status # "ok" THEN Step(r.status, p, stored)
  ELSE Step("decoding", r.pos, [vec |-> Append(stored.vec, r.v)])

\* The repeated arm: read one element and push it
RepeatedArm(frag, d, p, stored, bld) ==
  ElementPushed(p, stored,
                ReadElement(frag.elemMessage,
                            IF frag.elemMessage THEN frag.structType
                                                ELSE ScalarType(""),
                            frag.read, d, p, bld))

\* `msg.x = v`
ElementAssigned(p, stored, r) ==
  IF r.status # "ok" THEN Step(r.status, p, stored)
  ELSE Step("decoding", r.pos, r.v)

\* The scalar and the singular message arm: read one value and overwrite
SingularArm(frag, d, p, stored, bld) ==
  IF frag.kind = "message"
    THEN ElementAssigned(p, stored, DecodeNested(frag.structType, d, p, bld))
    ELSE ElementAssigned(p, stored,
                         ReadElement(FALSE, ScalarType(""), frag.read, d, p, bld))

\* One matched decode arm acting on the field's stored value
DecodeArm(frag, d, p, stored, bld) ==
  CASE frag.kind \in {"scalar", "message"} -> SingularArm(frag, d, p, stored, bld)
    [] frag.kind = "repeated" -> RepeatedArm(frag, d, p, stored, bld)
    [] frag.kind = "map" -> MapArm(frag, d, p, stored, bld)

ArmRan(arm) == Step(arm.status, arm.pos, <<arm.msg>>)

FieldSkipped(p, m, sk) ==
  IF ~sk.ok THEN Step("err", p, m) ELSE Step("decoding", sk.pos, m)

\* `let (tag, new_pos) = decode_key(data, pos)?; match tag { .. }`
Dispatched(frag, d, p, m, bld, tag) ==
  IF ~tag.ok THEN Step("err", p, m)
  ELSE IF frag.kind # "todo" /\ TagIs(tag.v, TagPattern(frag.tag).value)
    THEN ArmRan(DecodeArm(frag, d, tag.pos, m[1], bld))
  ELSE FieldSkipped(p, m, SkipField(d, tag.pos, WireTypeBits(tag.v)))

\* One iteration of decode()'s loop for the one-field message: read a tag, run
\* the field's arm on a match, skip the value otherwise
DecodeIteration(frag, d, p, m, bld) ==
  Dispatched(frag, d, p, m, bld, DecodeKey(d, p))

(***************************************************************************)
(* Generation: one field descriptor through the three entry points         *)
(***************************************************************************)

MaxNameLen == 3

NameChars == {".", "a", "b"}

RECURSIVE SeqsUpTo(_, _)
SeqsUpTo(S, n) ==
  IF n = 0 THEN {<<>>}
  ELSE LET shorter == SeqsUpTo(S, n - 1)
       IN shorter \cup {Append(q, x) : q \in {r \in shorter : Len(r) = n - 1}, x \in S}

\* typeName as the descriptor gives it: absent, or a (qualified) name
TypeNames == SeqsUpTo(NameChars, MaxNameLen)

\* Field numbers around the one-byte tag limit and around 2^28
FieldNumbers == {1, 2, 15, 16, 2047, TwoPow28 - 1, TwoPow28, TwoPow29 - 1}

\* Descriptor type ids, with 0, 10 (group) and 19 outside the table
TypeIds == 0..19

FieldInfo(number, type, typeName, label, mapEntry) ==
  [number |-> number, type |-> type, typeName |-> typeName,
   label |-> label, mapEntry |-> mapEntry]

\* typeName is present only on message and enum fields
PlainFields ==
  {FieldInfo(n, t, <<>>, l, NoMapEntry) :
     n \in FieldNumbers, t \in TypeIds \ {11, 14}, l \in {1, 3}}
  \cup {FieldInfo(n, t, tn, l, NoMapEntry) :
     n \in {1, 16}, t \in {11, 14}, tn \in TypeNames \ {<<>>}, l \in {1, 3}}

\* A map field is a repeated message field (its synthetic entry type)
MapFields ==
  {FieldInfo(n, t, <<"a", ".", "b">>, 3,
             MapEntry(k, v, IF v \in {11, 14} THEN <<".", "a", ".", "b">> ELSE <<>>)) :
     n \in {1, 16, TwoPow28}, t \in {11, 10},
     k \in {0, 3, 5, 8, 9, 10, 13, 17}, v \in TypeIds}

GenFields == PlainFields \cup MapFields

InitGen ==
  /\ field \in GenFields
  /\ phase = "generate"
  /\ member = NotRun /\ encFrag = NotRun /\ decFrag = NotRun
  /\ nested = <<>>
  /\ build = "release" /\ inst = <<>> /\ buf = <<>> /\ data = <<>>
  /\ pos = 0 /\ msg = <<>> /\ status = "none"

CodecUnchanged == UNCHANGED <<nested, build, inst, buf, data, pos, msg, status>>

StructMember ==
  /\ phase = "generate" /\ ~Ran(member)
  /\ member' = genStructMember(field)
  /\ UNCHANGED <<field, phase, encFrag, decFrag>>
  /\ CodecUnchanged

FieldEncode ==
  /\ phase = "generate" /\ ~Ran(encFrag)
  /\ encFrag' = genFieldEncode(field)
  /\ UNCHANGED <<field, phase, member, decFrag>>
  /\ CodecUnchanged

FieldDecode ==
  /\ phase = "generate" /\ ~Ran(decFrag)
  /\ decFrag' = genFieldDecode(field)
  /\ UNCHANGED <<field, phase, member, encFrag>>
  /\ CodecUnchanged

NextGen == StructMember \/ FieldEncode \/ FieldDecode

SpecGen == InitGen /\ [][NextGen]_vars

(***************************************************************************)
(* Running the generated codec of a one-field message                      *)
(***************************************************************************)

MaxElems == 3
MaxPairs == 2

\* The 17 type ids the descriptor may legally carry (1..18 without 10 = group)
LegalTypeIds == (1..18) \ {10}

Builds == {"debug", "release"}

AllOnes(w) == [i \in 1..w |-> 1]
TopOnly(w) == [i \in 1..w |-> IF i = w THEN 1 ELSE 0]
AllButTop(w) == [i \in 1..w |-> IF i = w THEN 0 ELSE 1]
\* +Infinity and -Infinity: exponent all ones, mantissa zero
Infinity(w, sign) ==
  [i \in 1..w |-> IF i = w THEN sign
                  ELSE IF i > (IF w = 32 THEN 23 ELSE 52) THEN 1 ELSE 0]

\* Representative values of a scalar Rust type: 0, 1, -1 or the maximum, the
\* minimum (for a float -0.0), the signed maximum (for a float a NaN), infinities
ScalarValues(s) ==
  LET ty == ScalarType(s)
      w == WidthOf(s)
  IN IF s = "bool" THEN {Val(ty, <<0>>), Val(ty, <<1>>)}
     ELSE IF s = "String" THEN {Val(ty, <<>>), Val(ty, <<97>>), Val(ty, <<97, 98>>)}
     ELSE IF s = "Vec<u8>" THEN {Val(ty, <<>>), Val(ty, <<0>>), Val(ty, <<255, 128>>)}
     ELSE {Val(ty, b) : b \in {ZeroBits(w), NatBits(1, w), AllOnes(w),
                                TopOnly(w), AllButTop(w)}}
          \cup (IF s \in {"f32", "f64"}
                  THEN {Val(ty, Infinity(w, 0)), Val(ty, Infinity(w, 1))}
                  ELSE {})

\* Two values of the type, for sequences
FewValues(s) ==
  LET ty == ScalarType(s)
  IN IF s = "bool" THEN {Val(ty, <<0>>), Val(ty, <<1>>)}
     ELSE IF s \in {"String", "Vec<u8>"} THEN {Val(ty, <<>>), Val(ty, <<97, 98>>)}
     ELSE {Val(ty, NatBits(1, WidthOf(s))), Val(ty, AllOnes(WidthOf(s)))}

ValuesOf(ty, few) ==
  IF ty.named
    THEN {Val(ty, <<a>>) : a \in (IF few THEN FewValues("i32") ELSE ScalarValues("i32"))}
    ELSE IF few THEN FewValues(ty.scalar) ELSE ScalarValues(ty.scalar)

\* Every instance of the struct member m the model encodes
StoredValues(m) ==
  IF m.shape = "map"
    THEN {[keys |-> k, values |-> v] :
            k \in SeqsUpTo(ValuesOf(m.keys, TRUE), MaxPairs),
            v \in SeqsUpTo(ValuesOf(m.values, TRUE), MaxPairs)}
  ELSE IF m.shape = "vec"
    THEN {[vec |-> e] : e \in SeqsUpTo(ValuesOf(m.elem, TRUE), MaxElems)}
  ELSE ValuesOf(m.type, FALSE)

TypeNameFor(t) == IF t = 11 THEN InnerTypeName ELSE <<>>

\* Singular and repeated fields of every legal type, and map fields over a
\* choice of legal key types (int32, bool, string, sint64) and value types
CodecFields ==
  {FieldInfo(n, t, TypeNameFor(t), 1, NoMapEntry) : n \in {1, 16}, t \in LegalTypeIds}
  \cup {FieldInfo(16, t, TypeNameFor(t), 3, NoMapEntry) : t \in LegalTypeIds}
  \cup {FieldInfo(2, 11, <<".", "p", ".", "E">>, 3, MapEntry(k, v, TypeNameFor(v))) :
          k \in {5, 8, 9, 18}, v \in {1, 2, 5, 9, 11, 12, 14, 17}}

InitCodec ==
  /\ field \in CodecFields
  /\ inst \in {<<x>> : x \in StoredValues(genStructMember(field).value)}
  /\ build \in Builds
  /\ phase = "generate" /\ status = "to encode"
  /\ member = NotRun /\ encFrag = NotRun /\ decFrag = NotRun /\ nested = <<>>
  /\ buf = <<>> /\ data = <<>> /\ pos = 0 /\ msg = <<>>

\* The generator run for the schema: the field's struct member, encode fragment
\* and decode arm, and the nested message's
Generate ==
  /\ phase = "generate"
  /\ member' = genStructMember(field)
  /\ encFrag' = genFieldEncode(field)
  /\ decFrag' = genFieldDecode(field)
  /\ nested' = NestedCodec
  /\ IF Threw(member') \/ Threw(encFrag') \/ Threw(decFrag')
       THEN phase' = "done" /\ status' = "generator failed"
       ELSE phase' = "compile" /\ status' = status
  /\ UNCHANGED <<field, build, inst, buf, data, pos, msg>>

\* rustc on the generated module
Compile ==
  /\ phase = "compile"
  /\ IF /\ EncodeCompiles(encFrag.value, member.value)
        /\ DecodeCompiles(decFrag.value, member.value)
        /\ \A i \in 1..Len(nested.members) :
              /\ EncodeCompiles(nested.enc[i], nested.members[i])
              /\ DecodeCompiles(nested.dec[i], nested.members[i])
       THEN /\ phase' = (IF status = "to encode" THEN "encode" ELSE "receive")
            /\ status' = status
       ELSE phase' = "done" /\ status' = "compile error"
  /\ UNCHANGED <<field, member, encFrag, decFrag, nested, build, inst, buf, data,
                 pos, msg>>

\* The outcome of encode(): a panic, or the bytes, which the decoder receives
Sent(enc) ==
  IF enc.panic
    THEN phase' = "done" /\ status' = "panic" /\ UNCHANGED <<buf, data>>
    ELSE phase' = "receive" /\ status' = "encoded"
         /\ buf' = enc.bytes /\ data' = enc.bytes

\* inst.encode(), the bytes then handed to the decoder
Encode ==
  /\ phase = "encode"
  /\ Sent(EncodeField(encFrag.value, inst[1]))
  /\ UNCHANGED <<field, member, encFrag, decFrag, nested, build, inst, pos, msg>>

\* decode(data) entered: `let mut msg = Self::default(); let mut pos = 0;`
StartDecode ==
  /\ phase = "receive"
  /\ phase' = "decode" /\ status' = "decoding"
  /\ msg' = <<DefaultStored(member.value)>> /\ pos' = 0
  /\ UNCHANGED <<field, member, encFrag, decFrag, nested, build, inst, buf, data>>

\* The decoder's state after one turn of its loop
Stepped(r) ==
  /\ status' = r.status /\ pos' = r.pos /\ msg' = r.msg
  /\ phase' = (IF r.status = "decoding" THEN "decode" ELSE "done")

\* One turn of decode()'s loop, or its `Ok(msg)` once the input is used up
DecodeStep ==
  /\ phase = "decode"
  /\ Stepped(IF pos < Len(data)
               THEN DecodeIteration(decFrag.value, data, pos, msg, build)
               ELSE Step("ok", pos, msg))
  /\ UNCHANGED <<field, member, encFrag, decFrag, nested, build, inst, buf, data>>

NextCodec == Generate \/ Compile \/ Encode \/ StartDecode \/ DecodeStep

SpecCodec == InitCodec /\ [][NextCodec]_vars

(***************************************************************************)
(* Decoding arbitrary input with the generated decoder of a one-field       *)
(* message                                                                 *)
(***************************************************************************)

MaxLen == 4
MaxPieces == 2

EntryTypeName == <<".", "p", ".", "E">>

\* Field #1 as a singular message, a repeated message, a repeated int32, a
\* map<int32, int32> and a map<int32, I>
DecodeFields ==
  {FieldInfo(1, 11, InnerTypeName, 1, NoMapEntry),
   FieldInfo(1, 11, InnerTypeName, 3, NoMapEntry),
   FieldInfo(1, 5, <<>>, 3, NoMapEntry),
   FieldInfo(1, 11, EntryTypeName, 3, MapEntry(5, 5, <<>>)),
   FieldInfo(1, 11, EntryTypeName, 3, MapEntry(5, 11, InnerTypeName))}

\* Whether the field's decode arm decodes a nested message
DecodesMessage(f) ==
  IF f.mapEntry.present THEN f.mapEntry.valueType = 11 ELSE f.type = 11

\* The bytes that mean something to the field's decoder: the tags 0x08 (#1,
\* varint), 0x0a (#1, length-delimited) and that of sub-field #2 (0x10 varint,
\* 0x12 length-delimited), small lengths and values, a continuation byte
Alphabet(f) == {0, 2, 8, 10, 128, IF DecodesMessage(f) THEN 18 ELSE 16}

\* The largest varint: 2^64 - 1
MaxVarint == <<255, 255, 255, 255, 255, 255, 255, 255, 255, 1>>

\* Occurrences of field #1 and their malformations: a message of one member,
\* an entry with key and value, in the other order, with an unknown sub-field
\* #3, with the key twice, a length one more than the input holds, the largest
\* length, and an unknown field #2; for a map also an entry that ends with an
\* unknown length-delimited sub-field #3 and one that opens with sub-field #1
\* in the length-delimited wire type
Pieces(f) ==
  {<<10, 2, 8, 2>>, <<10, 3, 8, 2>>, <<16, 2>>, <<10>> \o MaxVarint}
  \cup (IF ~f.mapEntry.present THEN {<<8, 2>>, <<10, 4, 8, 2, 24, 0>>}
        ELSE IF DecodesMessage(f)
          THEN {<<10, 4, 8, 2, 18, 0>>, <<10, 6, 8, 2, 18, 2, 8, 2>>,
                <<10, 6, 18, 2, 8, 2, 8, 2>>, <<10, 4, 8, 2, 18, 1>>,
                <<10, 6, 8, 2, 24, 0, 18, 0>>, <<10, 3, 8, 2, 18>>,
                <<10, 2, 18>> \o MaxVarint,
                <<10, 9, 8, 2, 18, 2, 8, 2, 26, 1, 0>>,
                <<10, 6, 10, 0, 8, 2, 18, 0>>}
          ELSE {<<10, 4, 8, 2, 16, 2>>, <<10, 4, 16, 2, 8, 2>>,
                <<10, 6, 8, 2, 24, 0, 16, 2>>, <<10, 6, 8, 0, 8, 2, 16, 2>>,
                <<10, 3, 8, 2, 16>>, <<10, 2, 16, 2>>,
                <<10, 7, 8, 2, 16, 2, 26, 1, 0>>,
                <<10, 6, 10, 0, 8, 2, 16, 2>>})

RECURSIVE Concat(_)
Concat(ss) == IF ss = <<>> THEN <<>> ELSE Head(ss) \o Concat(Tail(ss))

\* Every short byte string over the alphabet, and every string of pieces
Buffers(f) ==
  SeqsUpTo(Alphabet(f), MaxLen)
  \cup {Concat(ps) : ps \in SeqsUpTo(Pieces(f), MaxPieces)}

InitDecode ==
  /\ field \in DecodeFields
  /\ data \in Buffers(field)
  /\ build \in Builds
  /\ phase = "generate" /\ status = "to decode"
  /\ member = NotRun /\ encFrag = NotRun /\ decFrag = NotRun /\ nested = <<>>
  /\ inst = <<>> /\ buf = <<>> /\ pos = 0 /\ msg = <<>>

NextDecode == Generate \/ Compile \/ StartDecode \/ DecodeStep

SpecDecode == InitDecode /\ [][NextDecode]_vars

(***************************************************************************)
(* Claims about generation (checked under SpecGen)                         *)
(***************************************************************************)

WireTypes == {Varint, Fixed64, LengthDelimited, Fixed32}

EncodeEmitted == Ran(encFrag) /\ ~Threw(encFrag) /\ encFrag.value.kind # "todo"
DecodeEmitted == Ran(decFrag) /\ ~Threw(decFrag) /\ decFrag.value.kind # "todo"

\* v is the non-negative integer number*8 + wire (stated without forming number*8)
IsTagOf(v, number, wire) == v >= 0 /\ v \div 8 = number /\ v % 8 = wire

\* C3: for every field number in 1..2^29-1 and every wire type, fieldTag is the
\* non-negative number*8 + wire, and the hex literal passed to encode_key and the
\* decimal match-arm label both denote that value.
C3_TagDenotesNumberAndWire ==
  /\ (EncodeEmitted \/ DecodeEmitted) =>
       \A w \in WireTypes : IsTagOf(fieldTag(field.number, w), field.number, w)
  /\ EncodeEmitted =>
       LET lit == HexLiteral(encFrag.value.tagHex)
       IN lit.valid /\ IsTagOf(lit.value, field.number,
                               TagWireType(field, PROTO_TYPE_MAP[field.type]))
  /\ DecodeEmitted =>
       LET pat == TagPattern(decFrag.value.tag)
       IN pat.valid /\ IsTagOf(pat.value, field.number,
                               TagWireType(field, PROTO_TYPE_MAP[field.type]))

\* name is the last dot-separated component of typeName
IsShortNameOf(name, typeName) ==
  /\ \A i \in 1..Len(name) : name[i] # "."
  /\ Len(name) <= Len(typeName)
  /\ SubSeq(typeName, Len(typeName) - Len(name) + 1, Len(typeName)) = name
  /\ (Len(name) = Len(typeName) \/ typeName[Len(typeName) - Len(name)] = ".")

\* The type genStructMember resolved for a singular or repeated field
ResolvedType == IF member.value.shape = "vec" THEN member.value.elem
                ELSE member.value.type

ResolvedCase == Ran(member) /\ ~field.mapEntry.present /\ field.type \in LegalTypeIds

\* C8 as stated: the scalar type for base types, and the referenced type's short
\* name for message and for enum fields that carry a typeName.
C8_MessageAndEnumResolveToShortName ==
  ResolvedCase =>
    /\ ~Threw(member)
    /\ IF field.type \in {11, 14} /\ Truthy(field.typeName)
         THEN /\ ResolvedType.named
              /\ IsShortNameOf(ResolvedType.name, field.typeName)
         ELSE /\ ~ResolvedType.named
              /\ ResolvedType.scalar = PROTO_TYPE_MAP[field.type].rustType

\* C8 amended: the scalar type for base types, the short name for a message field
\* that carries a typeName, and i32 for an enum field whatever its typeName.
C8_MessageResolvesToShortNameEnumToI32 ==
  ResolvedCase =>
    /\ ~Threw(member)
    /\ IF field.type = 11 /\ Truthy(field.typeName)
         THEN /\ ResolvedType.named
              /\ IsShortNameOf(ResolvedType.name, field.typeName)
         ELSE /\ ~ResolvedType.named
              /\ ResolvedType.scalar = PROTO_TYPE_MAP[field.type].rustType
              /\ field.type = 14 => ResolvedType.scalar = "i32"

C8_Witness ==
  /\ Ran(member) /\ ~Threw(member)
  /\ field.type = 14 /\ field.typeName = <<"a", ".", "b">> /\ field.label = 1
  /\ ~member.value.type.named /\ member.value.type.scalar = "i32"

IllegalField(f) ==
  \/ f.type \notin LegalTypeIds
  \/ f.mapEntry.present /\ (f.mapEntry.keyType \notin LegalTypeIds
                            \/ f.mapEntry.valueType \notin LegalTypeIds)

\* C9: for a field whose type id, map key type id or map value type id is outside
\* the legal set, every generator entry point fails with UnsupportedType.
C9_UnsupportedTypeIsFatal ==
  IllegalField(field) =>
    /\ Ran(member) => member.threw = "UnsupportedType"
    /\ Ran(encFrag) => encFrag.threw = "UnsupportedType"
    /\ Ran(decFrag) => decFrag.threw = "UnsupportedType"

\* The fixed wire-type table as the specification states it
ClaimedWireType(t) ==
  IF t \in {1, 6, 16} THEN 1
  ELSE IF t \in {2, 7, 15} THEN 5
  ELSE IF t \in {5, 3, 13, 4, 8, 14, 17, 18} THEN 0
  ELSE 2

ClaimedTagWireType(f) ==
  IF f.mapEntry.present THEN 2 ELSE ClaimedWireType(f.type)

\* C10: every legal type id has the wire type of the fixed table, and the tag of a
\* map field is built with length-delimited whatever its key and value types.
C10_WireTypeTable ==
  /\ LegalTypeIds \subseteq DOMAIN PROTO_TYPE_MAP
  /\ Ran(member) =>
       \A t \in LegalTypeIds : PROTO_TYPE_MAP[t].wireType = ClaimedWireType(t)
  /\ (EncodeEmitted /\ HexLiteral(encFrag.value.tagHex).valid) =>
       HexLiteral(encFrag.value.tagHex).value % 8 = ClaimedTagWireType(field)
  /\ (DecodeEmitted /\ TagPattern(decFrag.value.tag).valid) =>
       TagPattern(decFrag.value.tag).value % 8 = ClaimedTagWireType(field)

C10_Witness ==
  /\ EncodeEmitted /\ DecodeEmitted
  /\ field.mapEntry.present /\ field.number = 16
  /\ field.mapEntry.keyType = 5 /\ field.mapEntry.valueType = 1
  /\ HexLiteral(encFrag.value.tagHex).value = 130
  /\ TagPattern(decFrag.value.tag).value = 130

\* The float type a field's shape holds: the singular or repeated field's own
\* type, or a map field's value type; 0 when the shape holds no float
FloatTypeHeld(f) ==
  IF f.mapEntry.present
    THEN (IF f.mapEntry.valueType \in {1, 2} THEN f.mapEntry.valueType ELSE 0)
  ELSE IF f.type \in {1, 2} THEN f.type ELSE 0

\* The encode call and the decode store of the shape's float
FloatEncodeCall(frag) == IF frag.kind = "map" THEN frag.valCall ELSE frag.call
FloatDecodeRead(frag) == IF frag.kind = "map" THEN frag.valRead ELSE frag.read

\* C11 (as claimed): in every shape that holds a float or double (singular
\* scalar, repeated element, map value) the encode fragment passes to_bits()
\* of the value to the fixed32/fixed64 primitive and the decode fragment
\* stores from_bits of the decoded integer; no shape passes the float itself
\* or stores the raw integer.
C11_FloatsUseBitPattern ==
  /\ (EncodeEmitted /\ FloatTypeHeld(field) # 0) =>
       /\ FloatEncodeCall(encFrag.value).arg.toBits
       /\ FloatEncodeCall(encFrag.value).func =
            PROTO_TYPE_MAP[FloatTypeHeld(field)].encodeFunc
  /\ (DecodeEmitted /\ FloatTypeHeld(field) # 0) =>
       /\ FloatDecodeRead(decFrag.value).fromBits =
            PROTO_TYPE_MAP[FloatTypeHeld(field)].rustType
       /\ FloatDecodeRead(decFrag.value).func =
            PROTO_TYPE_MAP[FloatTypeHeld(field)].decodeFunc

(***************************************************************************)
(* Claims about decoding arbitrary input (checked under SpecDecode)        *)
(***************************************************************************)

\* The generated decoder of a map field has been entered
MapDecoding ==
  field.mapEntry.present /\ phase \in {"decode", "done"} /\ msg # <<>>

\* The byte at pos opens an occurrence of field #1 as a length-delimited unit
OccurrenceAtPos == pos < Len(data) /\ data[pos + 1] = 10

\* C1: for every map field and every input, also when decode stops with a
\* failure, the decoded key and value sequences have the same length: a turn
\* of the loop that decodes an occurrence of the field appends one element to
\* both, a turn that skips another field and a turn that fails append to
\* neither.
C1_KeysAndValuesGrowTogether ==
  [][(field.mapEntry.present /\ phase \in {"receive", "decode"}) =>
       /\ Len(msg'[1].keys) = Len(msg'[1].values)
       /\ phase = "decode" =>
            /\ Len(msg'[1].keys) =
                 Len(msg[1].keys)
                 + (IF status' = "decoding" /\ OccurrenceAtPos THEN 1 ELSE 0)
            /\ status' \in {"err", "panic", "ok"} => msg' = msg]_vars

\* A map decode that holds the pair of a first occurrence and failed in a
\* second one, at the value sub-field that ends the input, after reading that
\* occurrence's key
C1_Witness ==
  /\ MapDecoding /\ phase = "done" /\ status = "err"
  /\ Len(msg[1].keys) = 1 /\ Len(msg[1].values) = 1
  /\ pos >= 2 /\ pos + 1 = Len(data)
  /\ data[pos - 1] = 8 /\ data[pos + 1] \in {16, 18}

\* C2 (as claimed): a singular message field, a repeated message field or a
\* message-typed map value whose declared length exceeds the remaining input
\* makes decode return a decode failure; decode of such a field never panics.
\* (A map field is taken in the build without overflow checks, where only the
\* value's slice can panic.)
C2_LengthBeyondInputIsDecodeFailure ==
  (DecodesMessage(field) /\ (field.mapEntry.present => build = "release")
   /\ phase = "done")
    => status \in {"ok", "err"}

\* The entry of the occurrence at pos: its declared length, whether it lies
\* within the input, its end and its bytes
OccurrenceLen == DecodeVarint(data, pos + 1)
OccurrenceInInput ==
  /\ OccurrenceLen.ok /\ IsSmall(OccurrenceLen.v.v)
  /\ OccurrenceLen.pos + BitsNat(OccurrenceLen.v.v, 1) <= Len(data)
OccurrenceEnd == OccurrenceLen.pos + BitsNat(OccurrenceLen.v.v, 1)
OccurrenceBody == SubSeq(data, OccurrenceLen.pos + 1, OccurrenceEnd)

\* An entry read as wire-format sub-fields (tag, then one value of the tag's
\* wire type): the bytes of the sub-fields that carry the key tag or the value
\* tag, and the number of the others; not ok when the bytes are no such
\* sequence
SubFields(ok, bytes, unknown) == [ok |-> ok, bytes |-> bytes, unknown |-> unknown]
NoSubFields == SubFields(FALSE, <<>>, 0)

RECURSIVE WithoutUnknown(_, _, _)

SubFieldKept(frag, e, p, tag, sk, rest) ==
  IF ~rest.ok THEN NoSubFields
  ELSE IF EntryField(frag, tag.v) = "unknown"
    THEN SubFields(TRUE, rest.bytes, rest.unknown + 1)
  ELSE SubFields(TRUE, SubSeq(e, p + 1, sk.pos) \o rest.bytes, rest.unknown)

SubFieldMeasured(frag, e, p, tag, sk) ==
  IF ~sk.ok THEN NoSubFields
  ELSE SubFieldKept(frag, e, p, tag, sk, WithoutUnknown(frag, e, sk.pos))

SubFieldKeyed(frag, e, p, tag) ==
  IF ~tag.ok THEN NoSubFields
  ELSE SubFieldMeasured(frag, e, p, tag,
                        SkipField(e, tag.pos, WireTypeBits(tag.v)))

WithoutUnknown(frag, e, p) ==
  IF p >= Len(e) THEN SubFields(TRUE, <<>>, 0)
  ELSE SubFieldKeyed(frag, e, p, DecodeKey(e, p))

\* The map arm run on the entry without its unknown sub-fields
KnownOnlyDecoded(e) ==
  MapArm(decFrag.value,
         EncodeLengthDelimited(WithoutUnknown(decFrag.value, e, 0).bytes),
         0, msg[1], build)

\* C12: in the inner loop of a map entry every tag other than the key tag and
\* the value tag is skipped by the wire type in its low 3 bits, and the skip
\* changes neither the accumulated key and value nor the message: an entry of
\* well-formed sub-fields decodes to exactly what the same entry without its
\* unknown sub-fields decodes to, successfully when that one does, and the
\* cursor ends at the end of the entry.
C12_UnknownInnerTagsAreSkipped ==
  [][(MapDecoding /\ phase = "decode" /\ OccurrenceAtPos /\ OccurrenceInInput
      /\ WithoutUnknown(decFrag.value, OccurrenceBody, 0).ok) =>
       /\ status' = KnownOnlyDecoded(OccurrenceBody).status
       /\ msg' = <<KnownOnlyDecoded(OccurrenceBody).msg>>
       /\ status' = "decoding" => pos' = OccurrenceEnd]_vars

\* A decoded map whose input is one entry with a key, a value and an unknown
\* sub-field, holding that key and that value
C12_Witness ==
  /\ MapDecoding /\ status = "decoding"
  /\ Len(data) > 2 /\ pos = Len(data)
  /\ data[1] = 10 /\ data[2] = Len(data) - 2
  /\ WithoutUnknown(decFrag.value, SubSeq(data, 3, Len(data)), 0).ok
  /\ WithoutUnknown(decFrag.value, SubSeq(data, 3, Len(data)), 0).unknown >= 1
  /\ Len(msg[1].keys) = 1 /\ Len(msg[1].values) = 1
  /\ msg[1].keys[1] # DefaultValue(decFrag.value.keySol)
  /\ msg[1].values[1] # DefaultValue(decFrag.value.valSol)

\* C13 (as claimed): a map entry that decodes consumes exactly its declared
\* length: when the map arm completes without failure the entry lies within
\* the input and the cursor is entry_end, the position after the length varint
\* plus entry_len, so no inner read took bytes at or beyond entry_end; and an
\* entry whose entry_end lies past the end of the input is a decode failure.
C13_EntryConsumesDeclaredLength ==
  [][(MapDecoding /\ phase = "decode" /\ OccurrenceAtPos) =>
       /\ status' = "decoding" => (OccurrenceInInput /\ pos' = OccurrenceEnd)
       /\ ~OccurrenceInInput => status' = "err"]_vars

(***************************************************************************)
(* Claims about the generated codec (checked under SpecCodec)              *)
(***************************************************************************)

SingularScalar == ~field.mapEntry.present /\ field.label # 3 /\ field.type # 11

\* C4: for every singular scalar field type and every value x of it (0, 1,
\* -1 or the maximum, the minimum, the signed maximum, the infinities), the
\* generated encode fragment produces bytes from which the generated decode
\* fragment yields x, using up the input.
C4_SingularScalarRoundTrip ==
  (SingularScalar /\ phase = "done")
    => (status = "ok" /\ msg = inst /\ pos = Len(data) /\ data = buf)

\* An int32 holding -1 that went through the 64-bit carrier (a one-byte tag
\* and a ten-byte varint) and came back
C4_Witness ==
  /\ SingularScalar /\ phase = "done" /\ status = "ok"
  /\ field.type = 5 /\ field.number = 1
  /\ inst[1].v = AllOnes(32) /\ Len(buf) = 11 /\ msg = inst

Repeated == ~field.mapEntry.present /\ field.label = 3

\* The tags of the top-level units of a buffer (-1 where it stops being one)
RECURSIVE UnitsFrom(_, _)

UnitAfter(d, tag, sk) ==
  IF ~sk.ok THEN <<-1>> ELSE <<tag>> \o UnitsFrom(d, sk.pos)

UnitKeyed(d, tag) ==
  IF ~tag.ok \/ ~IsSmall(tag.v.v) THEN <<-1>>
  ELSE UnitAfter(d, BitsNat(tag.v.v, 1),
                 SkipField(d, tag.pos, WireTypeBits(tag.v)))

UnitsFrom(d, p) ==
  IF p >= Len(d) THEN <<>> ELSE UnitKeyed(d, DecodeKey(d, p))

\* The wire type of one element of the field
ElementWireType ==
  IF field.type = 11 THEN LengthDelimited ELSE PROTO_TYPE_MAP[field.type].wireType

IsPrefix(s, q) == Len(s) <= Len(q) /\ s = SubSeq(q, 1, Len(s))

\* C5: a repeated field holding e1..en is encoded as exactly n units, each
\* under the field's own tag with the element's wire type (never one packed
\* unit); the decode arm appends one element per unit in arrival order, and
\* decoding the encoded bytes yields e1..en.
C5_RepeatedUnitsInOrder ==
  Repeated =>
    /\ phase \in {"receive", "decode", "done"} =>
         /\ status # "panic"
         /\ UnitsFrom(buf, 0) =
              [i \in 1..Len(inst[1].vec) |-> field.number * 8 + ElementWireType]
    /\ phase = "decode" /\ msg # <<>> => IsPrefix(msg[1].vec, inst[1].vec)
    /\ phase = "done" => (status = "ok" /\ msg = inst)

\* Three int32 elements, not all equal, encoded as three units and decoded
C5_Witness ==
  /\ Repeated /\ phase = "done" /\ status = "ok" /\ field.type = 5
  /\ Len(inst[1].vec) = 3 /\ inst[1].vec[1] # inst[1].vec[2]
  /\ Len(UnitsFrom(buf, 0)) = 3 /\ msg = inst

\* C6 (as claimed): for every legal key and value type, a map whose key and
\* value sequences have equal length is encoded and decoded back to the same
\* sequences.
C6_MapRoundTrip ==
  (field.mapEntry.present /\ Len(inst[1].keys) = Len(inst[1].values)
   /\ phase = "done")
    => (status = "ok" /\ msg = inst)

\* encode() ended in a panic
EncodePanicked == phase = "done" /\ status = "panic" /\ msg = <<>>

\* The number of top-level units encode() wrote for a map instance
C7_EntriesWritten == Len(UnitsFrom(buf, 0))

\* C7 (as claimed): encode runs to completion for every instance, also one
\* whose key and value sequences differ in length, and leaves no key and no
\* value out of the output.
C7_EncodeCompletesAndOmitsNothing ==
  /\ ~EncodePanicked
  /\ (field.mapEntry.present /\ status = "encoded")
       => (C7_EntriesWritten >= Len(inst[1].keys)
           /\ C7_EntriesWritten >= Len(inst[1].values))

====
